---- MODULE Spec2Model ----
(***************************************************************************)
(* A model of augment-vip (src/main.rs): the resolvers, the three store    *)
(* updaters, the file lock and run(), over an explicit filesystem.         *)
(*                                                                         *)
(* A path is a sequence of segments; <<>> stands for Option::None.         *)
(* A generated identifier is a record [len, hyphens, id]: the length and   *)
(* the hyphen count of its text, and the number of the Uuid::new_v4() call *)
(* it comes from (two calls never collide).                                *)
(***************************************************************************)
EXTENDS Integers, Sequences, FiniteSets, TLC

VARIABLES
    platform,        \* the build target: "unix", "windows" or "macos"
    no_signout,      \* Args.no_signout
    roots,           \* <<dirs::config_dir(), dirs::home_dir(), dirs::data_dir()>>
    dirs,            \* the directories that exist
    idfiles,         \* existing flat files: path -> [content, readonly, uchg]
    docs,            \* existing storage.json files: path -> [ok, members]
    dbs,             \* existing database files: path -> [ok, rows]
    rng,             \* number of Uuid::new_v4() calls made so far
    pc,              \* position in the code
    stack,           \* return positions of the calls in progress
    home,            \* where control rests once the outermost call returns
    result,          \* the outermost call's Result
    path,            \* the path argument of the function in progress
    file_name,       \* clean_vscode_database's file_name argument
    programs_found,  \* run's local
    jetbrains_dir,   \* run's local (<<>> when None)
    vscode_dirs,     \* run's local (<<>> when None)
    idx,             \* position in the loop in progress
    calls,           \* number of operations started from the idle state
    probes,          \* paths whose existence get_jetbrains_config_dir tested
    cmds,            \* external commands run: <<program, path>>
    sqllog,          \* database connections opened and queries run
    locked,          \* files on which lock_file has succeeded
    lockcalls,       \* files passed to lock_file
    pending,         \* files rewritten and not passed to lock_file since
    rewritten,       \* files rewritten
    order,           \* the targets run has started on, in order
    failed,          \* the failing step, once one has failed
    pre              \* the filesystem and the logs when the outermost call began

vars == <<platform, no_signout, roots, dirs, idfiles, docs, dbs, rng, pc, stack,
          home, result, path, file_name, programs_found, jetbrains_dir,
          vscode_dirs, idx, calls, probes, cmds, sqllog, locked, lockcalls,
          pending, rewritten, order, failed, pre>>

fsvars == <<dirs, idfiles, docs, dbs>>
logvars == <<probes, cmds, sqllog, locked, lockcalls, pending, rewritten, order, failed>>
runvars == <<programs_found, jetbrains_dir, vscode_dirs, idx>>
envvars == <<platform, no_signout, roots, pre>>

(***************************************************************************)
(* Bounds of the model.                                                    *)
(***************************************************************************)
MaxMembers == 2      \* members of a storage.json object in the JSON inputs
MaxRows == 3         \* rows of a state.vscdb in the database inputs
MaxCalls == 2        \* operations started one after the other in a unit run

None == <<>>
Platforms == {"unix", "windows", "macos"}

Range(s) == {s[i] : i \in DOMAIN s}

(***************************************************************************)
(* Identifiers.                                                            *)
(***************************************************************************)
UuidTextLen == 36
UuidHyphens == 4
Sha256HexLen == 64

\* Uuid::new_v4().to_string(): the hyphenated form of the n-th UUID.
UuidToString(n) == [len |-> UuidTextLen, hyphens |-> UuidHyphens, id |-> n]

\* format!("{:x}", Sha256::digest(uuid.as_bytes())): 64 lowercase hex digits.
Sha256Hex(n) == [len |-> Sha256HexLen, hyphens |-> 0, id |-> n]

\* Values found on disk before the run (id 0 is no generated UUID).
OldValues == {[len |-> 3, hyphens |-> 0, id |-> 0],
              [len |-> UuidTextLen, hyphens |-> UuidHyphens, id |-> 0]}

(***************************************************************************)
(* The base64 tables of the source, decoded.                               *)
(***************************************************************************)
Base64Decode(s) ==
    CASE s = "UGVybWFuZW50RGV2aWNlSWQ=" -> "PermanentDeviceId"
      [] s = "UGVybWFuZW50VXNlcklk" -> "PermanentUserId"
      [] s = "bWFjaGluZUlk" -> "machineId"
      [] s = "dGVsZW1ldHJ5Lm1hY2hpbmVJZA==" -> "telemetry.machineId"
      [] s = "dGVsZW1ldHJ5LmRldkRldmljZUlk" -> "telemetry.devDeviceId"
      [] s = "dGVsZW1ldHJ5Lm1hY01hY2hpbmVJZA==" -> "telemetry.macMachineId"
      [] s = "c3RvcmFnZS5zZXJ2aWNlTWFjaGluZUlk" -> "storage.serviceMachineId"

id_files == <<"UGVybWFuZW50RGV2aWNlSWQ=", "UGVybWFuZW50VXNlcklk">>

vscode_keys == <<"dGVsZW1ldHJ5Lm1hY2hpbmVJZA==", "dGVsZW1ldHJ5LmRldkRldmljZUlk",
                 "dGVsZW1ldHJ5Lm1hY01hY2hpbmVJZA==", "c3RvcmFnZS5zZXJ2aWNlTWFjaGluZUlk">>

vscode_id == Base64Decode("bWFjaGluZUlk")

(***************************************************************************)
(* Paths and the filesystem.                                               *)
(***************************************************************************)
Join(p, seg) == Append(p, seg)

JoinAll(p, segs) == p \o segs

IsFile(p) == p \in DOMAIN idfiles \/ p \in DOMAIN docs \/ p \in DOMAIN dbs

IsDir(p) == p \in dirs

Exists(p) == IsDir(p) \/ IsFile(p)

\* The names a directory listing can return, and the orders it can return
\* them in: read_dir promises no order.
EntryNames == {"Code", "JetBrains", "ws1", "ws2"}

NameOrders == {s \in [1..Cardinality(EntryNames) -> EntryNames] :
                  \A n \in EntryNames : \E i \in DOMAIN s : s[i] = n}

\* fs::read_dir(d), kept to the entries that are directories, in order ord.
ReadDirDirs(d, ord) ==
    LET present(n) == IsDir(Join(d, n))
    IN  IF IsDir(d) THEN [i \in 1..Len(SelectSeq(ord, present)) |->
                             Join(d, SelectSeq(ord, present)[i])]
        ELSE <<>>

RECURSIVE Flatten(_)
Flatten(ss) == IF ss = <<>> THEN <<>> ELSE Head(ss) \o Flatten(Tail(ss))

(***************************************************************************)
(* Path Resolver.                                                          *)
(***************************************************************************)
\* The roots from slot i on: the first existing <root>/JetBrains, and the
\* paths whose existence was tested on the way (find() stops at the first).
RECURSIVE JbScan(_)
JbScan(i) ==
    IF i > Len(roots) THEN [dir |-> None, probes |-> <<>>]
    ELSE IF roots[i] = None THEN JbScan(i + 1)
    ELSE LET p == Join(roots[i], "JetBrains")
         IN  IF Exists(p) THEN [dir |-> p, probes |-> <<p>>]
             ELSE [dir |-> JbScan(i + 1).dir, probes |-> <<p>> \o JbScan(i + 1).probes]

\* A resolver that tests every root before it picks the first hit.
RECURSIVE JbScanAll(_)
JbScanAll(i) ==
    IF i > Len(roots) THEN [dir |-> None, probes |-> <<>>]
    ELSE IF roots[i] = None THEN JbScanAll(i + 1)
    ELSE LET p == Join(roots[i], "JetBrains")
         IN  [dir |-> IF Exists(p) THEN p ELSE JbScanAll(i + 1).dir,
              probes |-> <<p>> \o JbScanAll(i + 1).probes]

get_jetbrains_config_dir_eager == JbScanAll(1)

get_jetbrains_config_dir == JbScan(1)

global_patterns(id) == << <<"User", "globalStorage">>,
                          <<"data", "User", "globalStorage">>,
                          <<id>>,
                          <<"data", id>> >>

workspace_patterns == << <<"User", "workspaceStorage">>,
                         <<"data", "User", "workspaceStorage">> >>

\* The candidate paths of one directory entry of a root.
EntryCandidates(entry_path, id, ord) ==
    LET global_paths == [i \in 1..Len(global_patterns(id)) |->
                            JoinAll(entry_path, global_patterns(id)[i])]
        workspace_base(i) == JoinAll(entry_path, workspace_patterns[i])
        workspace_paths == Flatten([i \in 1..Len(workspace_patterns) |->
                              IF Exists(workspace_base(i))
                              THEN ReadDirDirs(workspace_base(i), ord)
                              ELSE <<>>])
    IN  global_paths \o workspace_paths

BaseCandidates(base_dir, id, ord) ==
    LET entries == ReadDirDirs(base_dir, ord)
    IN  Flatten([i \in 1..Len(entries) |-> EntryCandidates(entries[i], id, ord)])

\* The Vec get_vscode_files returns (<<>> for None), directory listings in
\* order ord.
get_vscode_files(id, ord) ==
    LET base_dirs == SelectSeq(roots, LAMBDA r : r # None)
        all == Flatten([i \in 1..Len(base_dirs) |-> BaseCandidates(base_dirs[i], id, ord)])
    IN  SelectSeq(all, Exists)

(***************************************************************************)
(* Calls, returns and the ? operator.                                      *)
(***************************************************************************)
NoFailure == [op |-> "none", path |-> None, at |-> 0, err |-> "none"]

Call(callee, return_to) ==
    /\ pc' = callee
    /\ stack' = <<return_to>> \o stack

\* Ok(()) from the function in progress.
Return ==
    IF stack = <<>>
    THEN /\ pc' = home
         /\ stack' = stack
         /\ result' = "Ok"
    ELSE /\ pc' = Head(stack)
         /\ stack' = Tail(stack)
         /\ result' = result

\* An error that the caller drops: control goes on as after Ok(()).
PropagateSwallowed(err) == Return

\* Err(err)?: every caller up to the outermost passes the error on.
Propagate(err) ==
    /\ pc' = home
    /\ stack' = <<>>
    /\ result' = err

Fail(op, err) == failed' = [op |-> op, path |-> path, at |-> Len(order), err |-> err]

(***************************************************************************)
(* JSON Store Updater: the document.                                       *)
(*                                                                         *)
(* The text of a storage.json is [ok, members]: ok is FALSE for a file     *)
(* that cannot be read or does not parse as a JSON object; members are the *)
(* object's <<key, value>> pairs in the order of the text (a key may occur *)
(* twice). A Map<String, Value> is a function from its keys.               *)
(***************************************************************************)
RecognizedKeys == {Base64Decode(vscode_keys[i]) : i \in DOMAIN vscode_keys}

JsonKeys == RecognizedKeys \cup {"foo"}

\* The keys in the byte order of a BTreeMap<String, Value>.
KeyOrder == <<"foo", "storage.serviceMachineId", "telemetry.devDeviceId",
              "telemetry.macMachineId", "telemetry.machineId">>

EmptyMap == [k \in {} |-> 0]

\* serde_json::from_str::<Map<String, Value>>(content).ok(): of a repeated
\* key the last value stays.
from_str(text) ==
    IF ~text.ok THEN EmptyMap
    ELSE LET ms == text.members
             last(k) == CHOOSE i \in DOMAIN ms :
                            /\ ms[i][1] = k
                            /\ \A j \in DOMAIN ms : j > i => ms[j][1] # k
         IN  [k \in {ms[i][1] : i \in DOMAIN ms} |-> ms[last(k)][2]]

\* A reader that starts every update from an empty object.
read_document_fresh(text) == EmptyMap

\* The document read at line 172-176; a missing result is an empty object.
read_document(text) == from_str(text)

\* Map::insert
Insert(data, key, value) ==
    [k \in DOMAIN data \cup {key} |-> IF k = key THEN value ELSE data[k]]

\* serde_json::to_string_pretty(&data): the members in key order.
to_string_pretty(data) ==
    LET keys == SelectSeq(KeyOrder, LAMBDA k : k \in DOMAIN data)
    IN  [ok |-> TRUE, members |-> [i \in DOMAIN keys |-> <<keys[i], data[keys[i]]>>]]

\* A generator that gives every recognized key a plain UUID.
new_value_uuid_only(key_encoded, n) == UuidToString(n)

\* The value generated for key_encoded from the n-th UUID (line 187-191).
new_value(key_encoded, n) ==
    IF key_encoded = "dGVsZW1ldHJ5LmRldkRldmljZUlk"
    THEN UuidToString(n)
    ELSE Sha256Hex(n)

\* The loop over vscode_keys from key i on, n UUIDs generated before it.
RECURSIVE UpdateKeys(_, _, _)
UpdateKeys(data, i, n) ==
    IF i > Len(vscode_keys) THEN data
    ELSE UpdateKeys(Insert(data, Base64Decode(vscode_keys[i]),
                           new_value(vscode_keys[i], n + 1)),
                    i + 1, n + 1)

(***************************************************************************)
(* Embedded-Database Cleaner: the queries.                                 *)
(*                                                                         *)
(* A database file is [ok, rows]: ok is FALSE for a file the queries fail  *)
(* on (not a database, no ItemTable); rows are the keys of ItemTable's     *)
(* rows, each a sequence of characters.                                    *)
(***************************************************************************)
Marker == <<"a", "u", "g", "m", "e", "n", "t">>

\* SQLite's LIKE compares ASCII letters without regard to case.
Lower(c) ==
    CASE c = "A" -> "a" [] c = "U" -> "u" [] c = "G" -> "g" [] c = "M" -> "m"
      [] c = "E" -> "e" [] c = "N" -> "n" [] c = "T" -> "t" [] OTHER -> c

\* key LIKE '%augment%'
Like(key) ==
    \E i \in 0..(Len(key) - Len(Marker)) :
        \A j \in 1..Len(Marker) : Lower(key[i + j]) = Marker[j]

\* A count that counts every row.
count_query_all(rows) == Len(rows)

\* SELECT COUNT(*) FROM ItemTable WHERE key LIKE '%augment%';
count_query(rows) == Len(SelectSeq(rows, Like))

\* DELETE FROM ItemTable WHERE key LIKE '%augment%';
delete_query(rows) == SelectSeq(rows, LAMBDA k : ~Like(k))

DefaultFileName == "state.vscdb"

\* file_name.to_string() + ".backup", on the names the chain can reach.
AddBackup(name) ==
    CASE name = "state.vscdb" -> "state.vscdb.backup"
      [] name = "state.vscdb.backup" -> "state.vscdb.backup.backup"
      [] OTHER -> "state.vscdb.backup.backup.backup"

\* A test that never ends the chain.
ends_with_backup_never(name) == FALSE

\* file_name.ends_with(".backup")
ends_with_backup(name) == name # "state.vscdb"

(***************************************************************************)
(* Flat-File Store Updater.                                                *)
(***************************************************************************)
\* What fs::remove_file (and, on macOS, sudo rm -rf) can do to file p: a
\* read-only file cannot be deleted on Windows, nor a uchg file on macOS;
\* elsewhere the directory's permissions decide.
RemoveOutcomes(p) ==
    IF p \notin DOMAIN idfiles THEN {FALSE}
    ELSE IF platform = "windows" /\ idfiles[p].readonly THEN {FALSE}
    ELSE IF idfiles[p].uchg THEN {FALSE}
    ELSE BOOLEAN

\* What fs::write can do to file p of files: it fails on a file that is
\* still there and read-only on Windows or uchg; a read-only file on unix is
\* written by root and by no one else; any write can fail (disk, directory).
WriteOutcomes(files, p) ==
    IF p \notin DOMAIN files THEN BOOLEAN
    ELSE IF platform = "windows" /\ files[p].readonly THEN {FALSE}
    ELSE IF files[p].uchg THEN {FALSE}
    ELSE BOOLEAN

Remove(files, p) == [q \in DOMAIN files \ {p} |-> files[q]]

\* fs::write(p, content): a new file is writable, an old one keeps its flags.
Write(files, p, content) ==
    [q \in DOMAIN files \cup {p} |->
        IF q # p THEN files[q]
        ELSE IF p \in DOMAIN files THEN [files[p] EXCEPT !.content = content]
        ELSE [content |-> content, readonly |-> FALSE, uchg |-> FALSE]]

update_id_file ==
    /\ pc = "update_id_file"
    /\ rng' = rng + 1
    /\ cmds' = IF Exists(path) /\ platform = "macos"
               THEN Append(cmds, <<"sudo rm -rf", path>>)
               ELSE cmds
    /\ \E removed \in RemoveOutcomes(path) :
         LET after == IF removed THEN Remove(idfiles, path) ELSE idfiles
         IN  \E written \in WriteOutcomes(after, path) :
               IF written
               THEN /\ idfiles' = Write(after, path, UuidToString(rng + 1))
                    /\ rewritten' = rewritten \cup {path}
                    /\ pending' = pending \cup {path}
                    /\ failed' = failed
                    /\ Return
               ELSE /\ idfiles' = after
                    /\ UNCHANGED <<rewritten, pending>>
                    /\ Fail("fs::write", "Err:write")
                    /\ Propagate("Err:write")
    /\ UNCHANGED <<envvars, dirs, docs, dbs, home, path, file_name, runvars, calls,
                   probes, sqllog, locked, lockcalls, order>>

(***************************************************************************)
(* File Lock.                                                              *)
(***************************************************************************)
\* The files after the external command (attrib +R, or chmod 444 and on
\* macOS chflags uchg), each of which may fail unnoticed.
AfterLockCommands(files, p, cmd_ok, flag_ok) ==
    IF p \notin DOMAIN files THEN files
    ELSE [files EXCEPT ![p] = [content |-> @.content,
                                readonly |-> @.readonly \/ cmd_ok,
                                uchg |-> @.uchg \/ (platform = "macos" /\ flag_ok)]]

LockCommands(p) ==
    CASE platform = "windows" -> << <<"attrib +R", p>> >>
      [] platform = "macos" -> << <<"chmod 444", p>>, <<"sudo chflags uchg", p>> >>
      [] OTHER -> << <<"chmod 444", p>> >>

\* A lock that runs its commands before it looks for the file.
lock_file_unchecked ==
    /\ pc = "lock_file"
    /\ lockcalls' = lockcalls \cup {path}
    /\ pending' = pending \ {path}
    /\ cmds' = cmds \o LockCommands(path)
    /\ idfiles' = AfterLockCommands(idfiles, path, TRUE, TRUE)
    /\ IF Exists(path)
       THEN /\ locked' = locked \cup {path}
            /\ failed' = failed
            /\ Return
       ELSE /\ locked' = locked
            /\ Fail("lock_file", "Err:missing")
            /\ Propagate("Err:missing")
    /\ UNCHANGED <<envvars, dirs, docs, dbs, rng, home, path, file_name, runvars,
                   calls, probes, sqllog, rewritten, order>>

lock_file ==
    /\ pc = "lock_file"
    /\ lockcalls' = lockcalls \cup {path}
    /\ pending' = pending \ {path}
    /\ IF ~Exists(path)
       THEN /\ UNCHANGED <<cmds, idfiles, locked>>
            /\ Fail("lock_file", "Err:missing")
            /\ Propagate("Err:missing")
       ELSE /\ cmds' = cmds \o LockCommands(path)
            /\ \E cmd_ok \in BOOLEAN, flag_ok \in BOOLEAN, perm_ok \in BOOLEAN :
                 \* flag_ok matters on macOS alone, perm_ok elsewhere alone
                 /\ platform # "macos" => flag_ok
                 /\ platform = "macos" => perm_ok
                 /\ IF platform # "macos" /\ ~perm_ok
                    THEN /\ idfiles' = AfterLockCommands(idfiles, path, cmd_ok, flag_ok)
                         /\ locked' = locked
                         /\ Fail("fs::set_permissions", "Err:set_permissions")
                         /\ Propagate("Err:set_permissions")
                    ELSE /\ idfiles' = AfterLockCommands(idfiles, path,
                                           cmd_ok \/ platform # "macos", flag_ok)
                         /\ locked' = locked \cup {path}
                         /\ failed' = failed
                         /\ Return
    /\ UNCHANGED <<envvars, dirs, docs, dbs, rng, home, path, file_name, runvars,
                   calls, probes, sqllog, rewritten, order>>

(***************************************************************************)
(* JSON Store Updater.                                                     *)
(***************************************************************************)
\* update_vscode_files, lines 166-201.
uvf_json ==
    /\ pc = "uvf_json"
    /\ LET storage_json_path == Join(path, "storage.json")
       IN  IF Exists(storage_json_path)
           THEN LET data == UpdateKeys(read_document(docs[storage_json_path]), 1, rng)
                IN  /\ rng' = rng + Len(vscode_keys)
                    /\ \E written \in BOOLEAN :
                         IF written
                         THEN /\ docs' = [docs EXCEPT ![storage_json_path] =
                                              to_string_pretty(data)]
                              /\ rewritten' = rewritten \cup {storage_json_path}
                              /\ pending' = pending \cup {storage_json_path}
                              /\ failed' = failed
                              /\ pc' = "uvf_id"
                              /\ UNCHANGED <<stack, result>>
                         ELSE /\ UNCHANGED <<docs, rewritten, pending>>
                              /\ Fail("fs::write", "Err:json_write")
                              /\ Propagate("Err:json_write")
           ELSE /\ pc' = "uvf_id"
                /\ UNCHANGED <<rng, docs, rewritten, pending, failed, stack, result>>
    /\ UNCHANGED <<envvars, dirs, idfiles, dbs, home, path, file_name, runvars, calls,
                   probes, cmds, sqllog, locked, lockcalls, order>>

\* update_vscode_files, lines 203-204 and 208: the target that is a file.
uvf_id ==
    /\ pc = "uvf_id"
    /\ IF Exists(path) /\ IsFile(path)
       THEN /\ Call("update_id_file", "uvf_lock")
            /\ result' = result
       ELSE Return
    /\ UNCHANGED <<envvars, fsvars, rng, home, path, file_name, runvars, calls, logvars>>

\* A file target that is never passed to lock_file.
uvf_lock_skipped ==
    /\ pc = "uvf_lock"
    /\ Return
    /\ UNCHANGED <<envvars, fsvars, rng, home, path, file_name, runvars, calls, logvars>>

\* update_vscode_files, line 205 and 208: lock_file's result is the function's.
uvf_lock ==
    /\ pc = "uvf_lock"
    /\ pc' = "lock_file"
    /\ UNCHANGED <<envvars, fsvars, rng, stack, home, result, path, file_name, runvars,
                   calls, logvars>>

(***************************************************************************)
(* Embedded-Database Cleaner.                                              *)
(***************************************************************************)
LogEntry(db, q, n) == [db |-> db, q |-> q, n |-> n]

\* One level of clean_vscode_database: the file file_name of directory path.
clean_vscode_database ==
    /\ pc = "cvd"
    /\ LET state_db_path == Join(path, file_name)
       IN  IF ~Exists(state_db_path)
           THEN /\ Return
                /\ UNCHANGED <<dbs, sqllog, failed, file_name>>
           ELSE \E opened \in BOOLEAN, deleted \in BOOLEAN :
                  LET db == dbs[state_db_path]
                      rows_to_delete == count_query(db.rows)
                      open == LogEntry(state_db_path, "open", 0)
                      count == LogEntry(state_db_path, "count", rows_to_delete)
                      delete == LogEntry(state_db_path, "delete", rows_to_delete)
                  IN  IF ~opened
                      THEN /\ deleted
                           /\ UNCHANGED <<dbs, sqllog, file_name>>
                           /\ Fail("Connection::open", "Err:db_open")
                           /\ Propagate("Err:db_open")
                      ELSE IF ~db.ok
                      THEN /\ deleted
                           /\ sqllog' = Append(sqllog, open)
                           /\ UNCHANGED <<dbs, file_name>>
                           /\ Fail("count_query", "Err:db_query")
                           /\ Propagate("Err:db_query")
                      ELSE IF rows_to_delete > 0 /\ ~deleted
                      THEN /\ sqllog' = sqllog \o <<open, count>>
                           /\ UNCHANGED <<dbs, file_name>>
                           /\ Fail("delete_query", "Err:db_query")
                           /\ Propagate("Err:db_query")
                      ELSE /\ deleted
                           /\ failed' = failed
                           /\ IF rows_to_delete > 0
                              THEN /\ dbs' = [dbs EXCEPT ![state_db_path].rows =
                                                  delete_query(@)]
                                   /\ sqllog' = sqllog \o <<open, count, delete>>
                              ELSE /\ dbs' = dbs
                                   /\ sqllog' = sqllog \o <<open, count>>
                           /\ IF ends_with_backup(file_name)
                              THEN /\ Return
                                   /\ file_name' = file_name
                              ELSE /\ file_name' = AddBackup(file_name)
                                   /\ UNCHANGED <<pc, stack, result>>
    /\ UNCHANGED <<envvars, dirs, idfiles, docs, rng, home, path, runvars, calls,
                   probes, cmds, locked, lockcalls, pending, rewritten, order>>

(***************************************************************************)
(* run().                                                                  *)
(***************************************************************************)
\* A run that never reports the aggregate failure.
run_result_always_ok(found) == "Ok"

\* Lines 278-283.
run_result(found) == IF ~found THEN "Err:no_programs" ELSE "Ok"

\* Lines 240-245 and 256-258 (terminate_ides touches no file).
run_start ==
    /\ pc = "run"
    /\ LET r == get_jetbrains_config_dir
       IN  /\ probes' = r.probes
           /\ jetbrains_dir' = r.dir
           /\ programs_found' = (r.dir # None)
           /\ pc' = IF r.dir # None THEN "jb_loop" ELSE "vs_resolve"
    /\ idx' = 1
    /\ UNCHANGED <<envvars, fsvars, rng, stack, home, result, path, file_name,
                   vscode_dirs, calls, cmds, sqllog, locked, lockcalls, pending,
                   rewritten, order, failed>>

\* Lines 249-251: the next id file, or the end of the loop.
jb_loop ==
    /\ pc = "jb_loop"
    /\ IF idx <= Len(id_files)
       THEN /\ path' = Join(jetbrains_dir, Base64Decode(id_files[idx]))
            /\ order' = Append(order, path')
            /\ Call("update_id_file", "jb_lock")
       ELSE /\ pc' = "vs_resolve"
            /\ UNCHANGED <<path, order, stack>>
    /\ UNCHANGED <<envvars, fsvars, rng, home, result, file_name, runvars, calls,
                   probes, cmds, sqllog, locked, lockcalls, pending, rewritten, failed>>

\* Line 252.
jb_lock ==
    /\ pc = "jb_lock"
    /\ Call("lock_file", "jb_next")
    /\ UNCHANGED <<envvars, fsvars, rng, home, result, path, file_name, runvars,
                   calls, logvars>>

jb_next ==
    /\ pc = "jb_next"
    /\ idx' = idx + 1
    /\ pc' = "jb_loop"
    /\ UNCHANGED <<envvars, fsvars, rng, stack, home, result, path, file_name,
                   programs_found, jetbrains_dir, vscode_dirs, calls, logvars>>

\* Lines 261-262 and 274-276.
vs_resolve ==
    /\ pc = "vs_resolve"
    /\ \E ord \in NameOrders :
         /\ vscode_dirs' = get_vscode_files(vscode_id, ord)
         /\ programs_found' = (programs_found \/ vscode_dirs' # <<>>)
         /\ pc' = IF vscode_dirs' # <<>> THEN "vs_loop" ELSE "run_end"
    /\ idx' = 1
    /\ UNCHANGED <<envvars, fsvars, rng, stack, home, result, path, file_name,
                   jetbrains_dir, calls, logvars>>

\* Lines 268-269: the next target, or the end of the loop.
vs_loop ==
    /\ pc = "vs_loop"
    /\ IF idx <= Len(vscode_dirs)
       THEN /\ path' = vscode_dirs[idx]
            /\ order' = Append(order, path')
            /\ Call("uvf_json", "vs_clean")
       ELSE /\ pc' = "run_end"
            /\ UNCHANGED <<path, order, stack>>
    /\ UNCHANGED <<envvars, fsvars, rng, home, result, file_name, runvars, calls,
                   probes, cmds, sqllog, locked, lockcalls, pending, rewritten, failed>>

\* Line 270.
vs_clean ==
    /\ pc = "vs_clean"
    /\ IF ~no_signout
       THEN /\ file_name' = DefaultFileName
            /\ Call("cvd", "vs_next")
       ELSE /\ pc' = "vs_next"
            /\ UNCHANGED <<file_name, stack>>
    /\ UNCHANGED <<envvars, fsvars, rng, home, result, path, runvars, calls, logvars>>

vs_next ==
    /\ pc = "vs_next"
    /\ idx' = idx + 1
    /\ pc' = "vs_loop"
    /\ UNCHANGED <<envvars, fsvars, rng, stack, home, result, path, file_name,
                   programs_found, jetbrains_dir, vscode_dirs, calls, logvars>>

\* Lines 278-283.
run_end ==
    /\ pc = "run_end"
    /\ result' = run_result(programs_found)
    /\ pc' = "done"
    /\ UNCHANGED <<envvars, fsvars, rng, stack, home, path, file_name, runvars,
                   calls, logvars>>

(***************************************************************************)
(* The filesystems the runs start from.                                    *)
(***************************************************************************)
FnOf(pairs) == [p \in {x[1] : x \in pairs} |-> (CHOOSE x \in pairs : x[1] = p)[2]]

A == <<"A">>
B == <<"B">>
BaseDirs == {A, B}

OldValue == [len |-> 3, hyphens |-> 0, id |-> 0]
OldFile == [content |-> OldValue, readonly |-> FALSE, uchg |-> FALSE]

\* {"foo":"bar","telemetry.machineId":"old"}
ExampleDoc == [ok |-> TRUE,
               members |-> << <<"foo", OldValue>>, <<"telemetry.machineId", OldValue>> >>]

KeyAugment == <<"a", "u", "g", "m", "e", "n", "t", ".", "x">>
KeyUpper == <<"x", ".", "A", "u", "g", "M", "E", "N", "T">>
KeyNear == <<"a", "u", "g", "m", "e", "n">>
KeyOther == <<"f", "o", "o">>
KeySamples == {KeyAugment, KeyUpper, KeyNear, KeyOther}

ExampleDb == [ok |-> TRUE, rows |-> <<KeyAugment, KeyOther>>]

GS == <<"A", "Code", "User", "globalStorage">>
MID == <<"A", "Code", "machineId">>
PortableWS == <<"B", "Code", "data", "User", "workspaceStorage">>

FeaturesA == {"jb", "gs", "mid"}
FeaturesB == {"portable"}

\* The tree under A and B that the features fa and fb describe.
LayoutDirs(fa, fb) ==
    {A, B}
    \cup (IF "jb" \in fa THEN {Join(A, "JetBrains")} ELSE {})
    \cup (IF "gs" \in fa \/ "mid" \in fa THEN {<<"A", "Code">>} ELSE {})
    \cup (IF "gs" \in fa THEN {<<"A", "Code", "User">>, GS} ELSE {})
    \cup (IF "portable" \in fb
          THEN {<<"B", "Code">>, <<"B", "Code", "data">>, <<"B", "Code", "data", "User">>,
                PortableWS, Join(PortableWS, "ws1"), Join(PortableWS, "ws2")}
          ELSE {})

LayoutIdFiles(fa, fb) ==
    FnOf((IF "jb" \in fa
          THEN {<<JoinAll(A, <<"JetBrains", "PermanentDeviceId">>), OldFile>>} ELSE {})
         \cup (IF "mid" \in fa THEN {<<MID, OldFile>>} ELSE {}))

LayoutDocs(fa, fb) ==
    FnOf(IF "gs" \in fa THEN {<<Join(GS, "storage.json"), ExampleDoc>>} ELSE {})

LayoutDbs(fa, fb) ==
    FnOf((IF "gs" \in fa
          THEN {<<Join(GS, "state.vscdb"), ExampleDb>>,
                <<Join(GS, "state.vscdb.backup"), ExampleDb>>}
          ELSE {})
         \cup (IF "portable" \in fb
               THEN {<<JoinAll(PortableWS, <<"ws1", "state.vscdb">>), ExampleDb>>}
               ELSE {}))

Snapshot(op, p) ==
    [op |-> op, path |-> p, idfiles |-> idfiles, docs |-> docs, dbs |-> dbs,
     cmds |-> cmds, sqllog |-> sqllog, rng |-> rng]

\* What every run starts with, the filesystem and the arguments apart.
InitControl(first_pc, rest) ==
    /\ rng = 0
    /\ pc = first_pc
    /\ stack = <<>>
    /\ home = rest
    /\ result = "none"
    /\ path = None
    /\ file_name = DefaultFileName
    /\ programs_found = FALSE
    /\ jetbrains_dir = None
    /\ vscode_dirs = <<>>
    /\ idx = 1
    /\ calls = 0
    /\ probes = <<>>
    /\ cmds = <<>>
    /\ sqllog = <<>>
    /\ locked = {}
    /\ lockcalls = {}
    /\ pending = {}
    /\ rewritten = {}
    /\ order = <<>>
    /\ failed = NoFailure
    /\ pre = Snapshot(first_pc, None)

(***************************************************************************)
(* Spec: one run of the program.                                           *)
(***************************************************************************)
Init ==
    /\ platform \in Platforms
    /\ no_signout \in BOOLEAN
    /\ roots \in [1..3 -> BaseDirs \cup {None}]
    /\ \E fa \in SUBSET FeaturesA, fb \in SUBSET FeaturesB :
         /\ dirs = LayoutDirs(fa, fb)
         /\ idfiles = LayoutIdFiles(fa, fb)
         /\ docs = LayoutDocs(fa, fb)
         /\ dbs = LayoutDbs(fa, fb)
    /\ InitControl("run", "done")

Next ==
    \/ run_start
    \/ jb_loop
    \/ jb_lock
    \/ jb_next
    \/ vs_resolve
    \/ vs_loop
    \/ vs_clean
    \/ vs_next
    \/ run_end
    \/ update_id_file
    \/ lock_file
    \/ uvf_json
    \/ uvf_id
    \/ uvf_lock
    \/ clean_vscode_database

Spec == Init /\ [][Next]_vars

(***************************************************************************)
(* The operations called on their own, one after the other.                *)
(***************************************************************************)
\* Operation op, entered at first_pc, is called on path p.
CallOperation(op, first_pc, p) ==
    /\ pc = "idle"
    /\ calls < MaxCalls
    /\ calls' = calls + 1
    /\ pc' = first_pc
    /\ path' = p
    /\ file_name' = DefaultFileName
    /\ result' = "none"
    /\ failed' = NoFailure
    /\ pre' = Snapshot(op, p)
    /\ UNCHANGED <<platform, no_signout, roots, fsvars, rng, stack, home, runvars,
                   probes, cmds, sqllog, locked, lockcalls, pending, rewritten, order>>

RECURSIVE SeqsUpTo(_, _)
SeqsUpTo(S, n) ==
    IF n = 0 THEN {<<>>}
    ELSE SeqsUpTo(S, n - 1) \cup
         {Append(q, x) : q \in {r \in SeqsUpTo(S, n - 1) : Len(r) = n - 1}, x \in S}

\* SpecJson: update_vscode_files on a directory whose storage.json is any
\* text of at most MaxMembers members, unreadable, or missing.
JsonTexts ==
    {[ok |-> FALSE, members |-> <<>>]}
    \cup {[ok |-> TRUE, members |-> ms] : ms \in SeqsUpTo(JsonKeys \X OldValues, MaxMembers)}

InitJson ==
    /\ platform = "unix"
    /\ no_signout = FALSE
    /\ roots = <<A, None, None>>
    /\ dirs = LayoutDirs({"gs"}, {})
    /\ idfiles = FnOf({})
    /\ \/ docs = FnOf({})
       \/ \E text \in JsonTexts : docs = FnOf({<<Join(GS, "storage.json"), text>>})
    /\ dbs = FnOf({})
    /\ InitControl("idle", "idle")

call_update_vscode_files == CallOperation("update_vscode_files", "uvf_json", GS)

NextJson ==
    \/ call_update_vscode_files
    \/ uvf_json
    \/ uvf_id

SpecJson == InitJson /\ [][NextJson]_vars

\* SpecDb: clean_vscode_database on a directory whose state.vscdb has at most
\* MaxRows rows, with or without the two files named after it.
DbFiles(n) ==
    {[ok |-> FALSE, rows |-> <<>>]}
    \cup {[ok |-> TRUE, rows |-> rs] : rs \in SeqsUpTo(KeySamples, n)}

Level1 == Join(GS, "state.vscdb")
Level2 == Join(GS, "state.vscdb.backup")
Level3 == Join(GS, "state.vscdb.backup.backup")

InitDb ==
    /\ platform = "unix"
    /\ no_signout = FALSE
    /\ roots = <<A, None, None>>
    /\ dirs = LayoutDirs({"gs"}, {})
    /\ idfiles = FnOf({})
    /\ docs = FnOf({})
    /\ \E l1 \in SUBSET {Level1}, l2 \in SUBSET {Level2}, l3 \in SUBSET {Level3} :
         \E d1 \in DbFiles(MaxRows), d2 \in DbFiles(1) :
           /\ l1 = {} => d1 = [ok |-> FALSE, rows |-> <<>>]
           /\ l2 = {} => d2 = [ok |-> FALSE, rows |-> <<>>]
           /\ dbs = FnOf({<<q, d1>> : q \in l1} \cup {<<q, d2>> : q \in l2}
                         \cup {<<q, ExampleDb>> : q \in l3})
    /\ InitControl("idle", "idle")

call_clean_vscode_database == CallOperation("clean_vscode_database", "cvd", GS)

NextDb ==
    \/ call_clean_vscode_database
    \/ clean_vscode_database

SpecDb == InitDb /\ [][NextDb]_vars

\* The call in progress is run on: the program is sequential and nothing
\* else is scheduled.
SpecDbFair == SpecDb /\ WF_vars(clean_vscode_database)

\* SpecLock: lock_file and update_id_file on two paths of one directory, each
\* a file (read-only or not) or missing.
F1 == <<"A", "F1">>
F2 == <<"A", "F2">>
LockPaths == {F1, F2}

InitLock ==
    /\ platform \in Platforms
    /\ no_signout = FALSE
    /\ roots = <<A, None, None>>
    /\ dirs = {A}
    /\ \E present \in SUBSET LockPaths, ro \in SUBSET LockPaths :
         /\ ro \subseteq present
         /\ idfiles = [q \in present |-> [OldFile EXCEPT !.readonly = q \in ro]]
    /\ docs = FnOf({})
    /\ dbs = FnOf({})
    /\ InitControl("idle", "idle")

call_lock_file == \E p \in LockPaths : CallOperation("lock_file", "lock_file", p)

call_update_id_file == \E p \in LockPaths : CallOperation("update_id_file", "update_id_file", p)

NextLock ==
    \/ call_lock_file
    \/ call_update_id_file
    \/ lock_file
    \/ update_id_file

SpecLock == InitLock /\ [][NextLock]_vars

\* SpecResolve: get_jetbrains_config_dir, as run calls it, for three roots of
\* which each is unset or one of three directories, with or without JetBrains.
C == <<"C">>

InitResolve ==
    /\ platform = "unix"
    /\ no_signout = FALSE
    /\ roots \in [1..3 -> {A, B, C, None}]
    /\ \E jb \in SUBSET {A, B, C} : dirs = {A, B, C} \cup {Join(b, "JetBrains") : b \in jb}
    /\ idfiles = FnOf({})
    /\ docs = FnOf({})
    /\ dbs = FnOf({})
    /\ InitControl("run", "done")

NextResolve == run_start

SpecResolve == InitResolve /\ [][NextResolve]_vars

(***************************************************************************)
(* The claims.                                                             *)
(***************************************************************************)
Last(q) == q[Len(q)]

Parent(p) == SubSeq(p, 1, Len(p) - 1)

\* The outermost call was operation op and has returned.
Returned(op) == pc = "idle" /\ pre.op = op /\ result # "none"

StorageJson == Join(GS, "storage.json")

\* C1: run() ends with the aggregate failure "No JetBrains or VSCode
\* installations found" exactly when the JetBrains resolver found no directory
\* and the VSCode resolver found no candidate path; with either family found
\* the run never ends with that failure.
C1_AggregateFailureIffNothingFound ==
    pc = "done" =>
        (result = "Err:no_programs" <=> (jetbrains_dir = None /\ vscode_dirs = <<>>))

C1_Witness ==
    /\ pc = "done"
    /\ result = "Err:no_programs"
    /\ \E i \in DOMAIN roots : roots[i] # None

\* C2: across one or more updates of a storage.json, every key of the document
\* that is not one of the four recognized keys is still there with its value,
\* and no key other than the four recognized ones has been added.
C2_UnrecognizedKeysPreserved ==
    \A f \in DOMAIN pre.docs :
        LET old == from_str(pre.docs[f])
            new == from_str(docs[f])
        IN  /\ \A k \in DOMAIN old \ RecognizedKeys : k \in DOMAIN new /\ new[k] = old[k]
            /\ DOMAIN new \subseteq DOMAIN old \cup RecognizedKeys

C2_Witness ==
    /\ Returned("update_vscode_files")
    /\ result = "Ok"
    /\ calls = 1
    /\ StorageJson \in DOMAIN pre.docs
    /\ pre.docs[StorageJson].ok
    /\ pre.docs[StorageJson].members = << <<"telemetry.machineId", OldValue>>, <<"foo", OldValue>> >>
    /\ docs[StorageJson] # pre.docs[StorageJson]

UuidShaped(v) == v.len = UuidTextLen /\ v.hyphens = UuidHyphens

HexDigestShaped(v) == v.len = Sha256HexLen /\ v.hyphens = 0

\* The update of StorageJson has completed and the document held key before.
UpdatedWithKey(key) ==
    /\ Returned("update_vscode_files")
    /\ result = "Ok"
    /\ StorageJson \in DOMAIN pre.docs
    /\ key \in DOMAIN from_str(pre.docs[StorageJson])

\* C3 as stated: after the update of a document that holds telemetry.machineId,
\* its value is a freshly generated UUID-shaped string that differs from the
\* old value.
C3_MachineIdIsUuid ==
    UpdatedWithKey("telemetry.machineId") =>
        LET v == from_str(docs[StorageJson])["telemetry.machineId"]
        IN  /\ UuidShaped(v)
            /\ v.id > pre.rng
            /\ v # from_str(pre.docs[StorageJson])["telemetry.machineId"]

\* C3, amended: after a completed update of a document that holds
\* telemetry.machineId, its value is the 64-digit hex SHA-256 digest of a
\* freshly generated UUID, is not UUID-shaped and differs from the old value;
\* telemetry.devDeviceId alone is a UUID-shaped string.
C3_MachineIdIsHexDigest ==
    UpdatedWithKey("telemetry.machineId") =>
        LET new == from_str(docs[StorageJson])
            v == new["telemetry.machineId"]
        IN  /\ HexDigestShaped(v)
            /\ ~UuidShaped(v)
            /\ v.id > pre.rng
            /\ v # from_str(pre.docs[StorageJson])["telemetry.machineId"]
            /\ \A k \in RecognizedKeys : UuidShaped(new[k]) <=> k = "telemetry.devDeviceId"

C3_Witness ==
    /\ UpdatedWithKey("telemetry.machineId")
    /\ pre.docs[StorageJson] = ExampleDoc
    /\ from_str(docs[StorageJson])["foo"] = OldValue

\* C4: lock_file on a path that does not exist returns an error, creates no
\* file, changes no file's content or flags and runs no external command.
C4_LockMissingChangesNothing ==
    (Returned("lock_file") /\ pre.path \notin DOMAIN pre.idfiles) =>
        /\ result = "Err:missing"
        /\ idfiles = pre.idfiles
        /\ cmds = pre.cmds
        /\ ~Exists(pre.path)

C4_Witness ==
    /\ Returned("lock_file")
    /\ pre.path \notin DOMAIN pre.idfiles
    /\ result = "Err:missing"
    /\ DOMAIN idfiles # {}

\* key contains the marker, letters compared as LIKE compares them.
HasMarker(key) ==
    \E i \in 1..Len(key) :
        /\ i + Len(Marker) - 1 <= Len(key)
        /\ [j \in 1..Len(Marker) |-> Lower(SubSeq(key, i, i + Len(Marker) - 1)[j])] = Marker

\* What the call in progress has logged about database file db.
NewLog == SubSeq(sqllog, Len(pre.sqllog) + 1, Len(sqllog))

LogOf(log, db) == SelectSeq(log, LAMBDA e : e.db = db)

\* The files one completed cleaning pass has worked on.
Cleaned ==
    IF Level1 \notin DOMAIN pre.dbs THEN {}
    ELSE IF Level2 \notin DOMAIN pre.dbs THEN {Level1}
    ELSE {Level1, Level2}

\* C5: a completed cleaning pass reports, for each file it works on, the number
\* n of rows whose key contains the marker, removes exactly those rows and
\* leaves the others in place, and runs the delete query only when n > 0; a
\* pass over a file that an earlier pass cleaned reports 0 and deletes nothing.
C5_CleanerCountsAndDeletesMatches ==
    /\ (Returned("clean_vscode_database") /\ result = "Ok") =>
          \A db \in Cleaned :
              LET rows == pre.dbs[db].rows
                  n == Len(SelectSeq(rows, HasMarker))
                  open == LogEntry(db, "open", 0)
                  count == LogEntry(db, "count", n)
                  delete == LogEntry(db, "delete", n)
              IN  /\ LogOf(NewLog, db) = IF n > 0 THEN <<open, count, delete>>
                                         ELSE <<open, count>>
                  /\ dbs[db].rows = SelectSeq(rows, LAMBDA k : ~HasMarker(k))
    /\ \A db \in DOMAIN dbs :
          LET log == LogOf(sqllog, db)
          IN  \A i \in DOMAIN log, j \in DOMAIN log :
                  (i < j /\ log[j].q = "count"
                   /\ (log[i].q = "delete" \/ (log[i].q = "count" /\ log[i].n = 0)))
                  => (log[j].n = 0 /\ (j < Len(log) => log[j + 1].q # "delete"))

C5_Witness ==
    /\ Returned("clean_vscode_database")
    /\ result = "Ok"
    /\ calls = 2
    /\ LogOf(sqllog, Level1) = <<LogEntry(Level1, "open", 0), LogEntry(Level1, "count", 2),
                                 LogEntry(Level1, "delete", 2), LogEntry(Level1, "open", 0),
                                 LogEntry(Level1, "count", 0)>>
    /\ dbs[Level1].rows = <<KeyNear>>

\* The state part of C6: a call on the default file name works on
\* state.vscdb and then on state.vscdb.backup and on nothing else: it never
\* names, opens or changes state.vscdb.backup.backup, opens at most two
\* files, and a missing file at either level ends the chain with Ok and
\* without a change; every call returns.
C6_ChainInvariant ==
    /\ file_name \in {"state.vscdb", "state.vscdb.backup"}
    /\ \A i \in DOMAIN sqllog : sqllog[i].db \in {Level1, Level2}
    /\ \A i \in DOMAIN NewLog, j \in DOMAIN NewLog :
          (i < j /\ NewLog[i].db = Level2) => NewLog[j].db = Level2
    /\ Len(SelectSeq(NewLog, LAMBDA e : e.q = "open")) <= 2
    /\ Level3 \in DOMAIN pre.dbs => (Level3 \in DOMAIN dbs /\ dbs[Level3] = pre.dbs[Level3])
    /\ Level3 \notin DOMAIN pre.dbs => Level3 \notin DOMAIN dbs
    /\ (Returned("clean_vscode_database") /\ Level1 \notin DOMAIN pre.dbs) =>
          (result = "Ok" /\ NewLog = <<>> /\ dbs = pre.dbs)
    /\ (Returned("clean_vscode_database") /\ Level1 \in DOMAIN pre.dbs
        /\ Level2 \notin DOMAIN pre.dbs /\ pre.dbs[Level1].ok
        /\ failed = NoFailure) =>
          (result = "Ok" /\ LogOf(NewLog, Level1) = NewLog /\ NewLog # <<>>)

\* C6: the chain of clean_vscode_database stops at the second level (the
\* invariant above holds in every state) and every call of it returns.
C6_BackupChainStopsAtSecondLevel ==
    /\ []C6_ChainInvariant
    /\ (pc = "cvd" ~> pc = "idle")

C6_Witness ==
    /\ Returned("clean_vscode_database")
    /\ result = "Ok"
    /\ {Level1, Level2, Level3} \subseteq DOMAIN pre.dbs
    /\ LogOf(NewLog, Level1) # <<>>
    /\ LogOf(NewLog, Level2) # <<>>
    /\ dbs[Level3] = ExampleDb

\* The index of the first root that is set and holds a JetBrains entry.
JbHits == {i \in DOMAIN roots : roots[i] # None /\ Exists(Join(roots[i], "JetBrains"))}

JbProbesUpTo(n) ==
    LET tried == SelectSeq(SubSeq(roots, 1, n), LAMBDA r : r # None)
    IN  [i \in DOMAIN tried |-> Join(tried[i], "JetBrains")]

\* C7: the JetBrains resolver returns <root>/JetBrains of the first root, in
\* the order configuration, home, data, that has one, and none when no root
\* has; it tests the roots in that order and no root after the one it returns.
C7_FirstExistingJetBrainsNoFurtherProbe ==
    pc # "run" =>
        IF JbHits = {}
        THEN jetbrains_dir = None /\ probes = JbProbesUpTo(Len(roots))
        ELSE LET first == CHOOSE i \in JbHits : \A j \in JbHits : i <= j
             IN  /\ jetbrains_dir = Join(roots[first], "JetBrains")
                 /\ probes = JbProbesUpTo(first)

C7_Witness ==
    /\ pc # "run"
    /\ roots = <<A, B, C>>
    /\ JbHits = {2}
    /\ jetbrains_dir = <<"B", "JetBrains">>
    /\ probes = << <<"A", "JetBrains">>, <<"B", "JetBrains">> >>

FlatFiles == {f \in rewritten : f \notin DOMAIN docs}

\* C8 as stated: when the run ends with Ok, every file it rewrote, flat
\* identifier file or storage.json, has been passed to lock_file after its
\* last rewrite.
C8_EveryRewrittenFileLocked ==
    (pc = "done" /\ result = "Ok") => rewritten \cap pending = {}

\* C8, amended: when the run ends with Ok, every flat identifier file it
\* rewrote has been passed to lock_file after its last rewrite; a rewritten
\* storage.json is never passed to lock_file.
C8_EveryRewrittenFlatFileLocked ==
    /\ (pc = "done" /\ result = "Ok") =>
          \A f \in FlatFiles : f \in lockcalls /\ f \notin pending /\ f \in locked
    /\ \A f \in rewritten \ FlatFiles : f \notin lockcalls /\ f \in pending

C8_Witness ==
    /\ pc = "done"
    /\ result = "Ok"
    /\ MID \in rewritten
    /\ StorageJson \in rewritten
    /\ JoinAll(A, <<"JetBrains", "PermanentUserId">>) \in rewritten

\* C9: once lock_file has succeeded on a file, no later step of the run
\* deletes it, rewrites it or makes it writable again.
C9_LockedFileNeverWrittenAgain ==
    [][\A f \in locked :
          f \in DOMAIN idfiles =>
              /\ f \in DOMAIN idfiles'
              /\ idfiles'[f].content = idfiles[f].content
              /\ idfiles[f].readonly => idfiles'[f].readonly]_vars

\* C10: once a required step has failed on a target, the run is over with
\* that step's error: the failing target is the last one started, nothing
\* outside the targets started has been rewritten, locked or cleaned, and the
\* files rewritten before keep their new identifiers.
C10_FirstFailureEndsRun ==
    failed # NoFailure =>
        /\ pc = "done"
        /\ stack = <<>>
        /\ result = failed.err
        /\ Len(order) = failed.at
        /\ Last(order) = failed.path
        /\ \A f \in rewritten \cup lockcalls :
              f \in Range(order) \/ Parent(f) \in Range(order)
        /\ \A i \in DOMAIN sqllog : Parent(sqllog[i].db) \in Range(order)
        /\ \A f \in rewritten \ {failed.path} :
              \/ f \in DOMAIN idfiles /\ idfiles[f].content.id > 0
              \/ f \in DOMAIN docs /\ docs[f] # pre.docs[f]

C10_Witness ==
    /\ pc = "done"
    /\ failed # NoFailure
    /\ result = failed.err
    /\ rewritten # {}
    /\ Len(order) > Len(id_files)
    /\ idx < Len(vscode_dirs)

====
